---- MODULE Spec2Model ----
(***************************************************************************)
(* The visitor-interaction flow of src/src/App.jsx: the detection loop     *)
(* (detectPerson), the speech turn helper (speak), the recognition reply   *)
(* handler (handleSpeechResult), the capture handler (handleCapture) and   *)
(* resumeDetection, together with the browser services they call.          *)
(*                                                                         *)
(* Every handler runs to completion on the single JavaScript event loop,   *)
(* so a handler is one action.  detectPerson is split at its one await     *)
(* (line 72): the part up to the Face Locator call and the part that runs  *)
(* when the call settles.                                                  *)
(*                                                                         *)
(* The earlier variants of the component kept under src/unnamed have their *)
(* own specifications at the end of the module: P0_Spec (part_000),        *)
(* Mode_Spec (part_001, lines 216-450) and HS_Spec (part_001, lines        *)
(* 452-702).  They share the variables of the services and of the state    *)
(* hooks that have the same name in every variant.                         *)
(*                                                                         *)
(* Browser services:                                                       *)
(*  - speechSynthesis is a queue of utterances; cancel() empties it and an *)
(*    utterance removed by cancel() gets an 'error' event, not 'end', so   *)
(*    its onend continuation is not run (Web Speech API); an utterance the *)
(*    service cannot speak also gets 'error' (utteranceFails).  The        *)
(*    browser is one that has window.speechSynthesis;                      *)
(*  - a SpeechRecognition session with continuous = false delivers one     *)
(*    result, or ends on an error / no-match / abort without one.          *)
(***************************************************************************)
EXTENDS Integers, Sequences, FiniteSets, TLC

\* ------------------------------------------------------------------ bounds
MaxFaces == 2        \* most faces one Face Locator call reports
MaxTimers == 2       \* most capture timeouts pending at once
MaxWords == 2        \* most words in a recognised transcript
ClockStep == 250     \* milliseconds by which the clock advances in one step

\* --------------------------------------------------------------- constants
DETECTION_INTERVAL == 500

ElapsedCap == DETECTION_INTERVAL + ClockStep

VARIABLES
  personDetected,       \* useState, line 14
  step,                 \* useState, line 15: idle | waiting | decision | end
  showButton,           \* useState, line 16
  isInteracting,        \* useState, line 17
  closureIsInteracting, \* the isInteracting binding detectPerson closes over
  hasSpeechRecognition, \* window.SpeechRecognition || webkitSpeechRecognition
  loopPc,               \* detection loop: setup | raf | estimating | dead
  elapsed,              \* Date.now() - lastDetection, saturated at ElapsedCap
  synthQueue,           \* window.speechSynthesis: utterances not yet ended
  recognitionRef,       \* recognitionRef.current: null | listening | ended
  activeSessions,       \* recognition sessions started and not yet ended
  timers,               \* pending setTimeout callbacks of handleCapture
  alerts,               \* alert() calls made by setupCamera
  inFlight,             \* model.estimateFaces calls not yet settled
  event,                \* history: the handler that ran last and its input
  hasGreetingSpoken,    \* part_000: useState, line 17
  greetings,            \* part_000 history: greetings issued since the last
                        \* tick without a face
  mode,                 \* part_001 (mode variant): useState, line 230
  loops,                \* part_001 (mode variant): the detection loops made
                        \* by the runs of the [mode] effect, lines 265-326
  hasSpoken,            \* part_001 (hasSpoken variant): useState, line 466
  isListening           \* part_001 (hasSpoken variant): useState, line 467

\* The state of the earlier variants of the component kept under
\* src/unnamed; each variant has its own specification below.
variantVars == <<hasGreetingSpoken, greetings, mode, loops, hasSpoken,
                 isListening>>

vars == <<personDetected, step, showButton, isInteracting,
          closureIsInteracting, hasSpeechRecognition, loopPc, elapsed,
          synthQueue, recognitionRef, activeSessions, timers, alerts,
          inFlight, event, variantVars>>

reactState == <<personDetected, step, showButton, isInteracting>>

\* ------------------------------------------------------------- transcripts
\* A transcript is a sequence of one-character strings.
Words ==
  { <<"y","e","s">>, <<"Y","E","S">>, <<"n","o">>,
    <<"y","e">>, <<"s">>, <<"o","k">> }

RECURSIVE Phrases(_)
Phrases(n) ==
  IF n = 0 THEN { <<>> }
  ELSE LET P == Phrases(n - 1)
       IN  P \cup { IF p = <<>> THEN w ELSE p \o <<" ">> \o w :
                      p \in P, w \in Words }

Transcripts == Phrases(MaxWords)

YES == <<"y","e","s">>
NO == <<"n","o">>

LowerChar(c) ==
  CASE c = "Y" -> "y"
    [] c = "E" -> "e"
    [] c = "S" -> "s"
    [] c = "N" -> "n"
    [] c = "O" -> "o"
    [] c = "K" -> "k"
    [] OTHER -> c

\* String.prototype.toLowerCase
ToLowerCase(t) == [i \in 1..Len(t) |-> LowerChar(t[i])]

\* String.prototype.includes
Includes(t, pat) ==
  \E i \in 1..(Len(t) - Len(pat) + 1) : SubSeq(t, i, i + Len(pat) - 1) = pat

\* ------------------------------------------------------------------ events
\* name: the handler; transcript, text: its input; calls: the calls it made
\* on the Face Locator and the speech services.
Ev(name, calls) ==
  [name |-> name, transcript |-> <<>>, text |-> "", calls |-> calls]

\* ------------------------------------------------------------------ speech
GREETING == "Welcome to our photography. Would you like to take a photo?"
INSTRUCTIONS == "Tap or click the button below in the tab to take a photo."
THANKS == "Thank you for visiting."
THANKS_CAPTURE == "Thank you. Thank you for visiting."

\* Variant of cancel that leaves the outstanding utterances in the queue.
cancelLeavesQueue(queue) == queue

\* speechSynthesis.cancel(): every queued or speaking utterance is removed.
cancel(queue) == <<>>

\* speak(text, callback): cancel, then queue one utterance whose onend runs
\* the callback (if any).
speak(queue, text, callback) ==
  Append(cancel(queue), [text |-> text, onend |-> callback])

\* The calls one speak makes on the speech service; "cancelled" records that
\* its cancel() removed an utterance that had not ended.
speakCalls(queue) ==
  {"speak"} \cup (IF queue # <<>> THEN {"cancelled"} ELSE {})

\* setupSpeechRecognition: null when the browser has no implementation.
setupSpeechRecognition == IF hasSpeechRecognition THEN "created" ELSE "null"

\* The state hooks of the variants as their first render leaves them.
VariantsInit ==
  /\ hasGreetingSpoken = FALSE
  /\ greetings = 0
  /\ mode = "idle"
  /\ loops = <<>>
  /\ hasSpoken = FALSE
  /\ isListening = FALSE

Init ==
  /\ VariantsInit
  /\ personDetected = FALSE
  /\ step = "idle"
  /\ showButton = FALSE
  /\ isInteracting = FALSE
  /\ closureIsInteracting = FALSE
  /\ hasSpeechRecognition \in BOOLEAN
  /\ loopPc = "setup"
  /\ elapsed = ElapsedCap
  /\ synthQueue = <<>>
  /\ recognitionRef = "null"
  /\ activeSessions = 0
  /\ timers = 0
  /\ alerts = 0
  /\ inFlight = 0
  /\ event = Ev("mount", {})

\* ------------------------------------------------------------ continuations
\* Variant of startListening that replaces the session without aborting it.
startListeningNoAbort ==
  IF setupSpeechRecognition = "null"
    THEN /\ recognitionRef' = "null"
         /\ activeSessions' = activeSessions
    ELSE /\ recognitionRef' = "listening"
         /\ activeSessions' = activeSessions + 1

\* The greeting continuation: abort the session held in recognitionRef,
\* create a new one and start it.
startListening ==
  LET afterAbort == IF recognitionRef = "listening"
                      THEN activeSessions - 1 ELSE activeSessions
  IN  IF setupSpeechRecognition = "null"
        THEN /\ recognitionRef' = "null"
             /\ activeSessions' = afterAbort
        ELSE /\ recognitionRef' = "listening"
             /\ activeSessions' = afterAbort + 1

\* The calls startListening makes on the recognition service.
startListeningCalls ==
  (IF recognitionRef # "null" THEN {"abort"} ELSE {})
    \cup (IF setupSpeechRecognition # "null" THEN {"start"} ELSE {})

\* Variant of resumeDetection that leaves isInteracting set.
resumeDetectionStillInteracting ==
  /\ isInteracting' = isInteracting
  /\ personDetected' = FALSE
  /\ showButton' = FALSE
  /\ step' = "idle"

resumeDetection ==
  /\ isInteracting' = FALSE
  /\ personDetected' = FALSE
  /\ showButton' = FALSE
  /\ step' = "idle"

\* ---------------------------------------------------------- detection loop
\* setupCamera succeeds: the stream plays, the model loads and detectPerson
\* is called for the first time.
setupCameraReady ==
  /\ loopPc = "setup"
  /\ loopPc' = "raf"
  /\ event' = Ev("cameraReady", {})
  /\ UNCHANGED <<reactState, closureIsInteracting, hasSpeechRecognition,
                 inFlight, elapsed, synthQueue, recognitionRef, activeSessions, timers,
                 alerts>>
  /\ UNCHANGED variantVars

\* Variant of setupCameraFails in which the unsupported-camera branch does
\* not return, so the getUserMedia call throws and the catch alerts again.
setupCameraFailsAlertsTwice ==
  /\ loopPc = "setup"
  /\ loopPc' = "dead"
  /\ alerts' = alerts + 2
  /\ event' = Ev("cameraError", {"alert"})
  /\ UNCHANGED <<reactState, closureIsInteracting, hasSpeechRecognition,
                 inFlight, elapsed, synthQueue, recognitionRef, activeSessions,
                 timers>>
  /\ UNCHANGED variantVars

\* setupCamera fails: camera unsupported or getUserMedia rejects.
setupCameraFails ==
  /\ loopPc = "setup"
  /\ loopPc' = "dead"
  /\ alerts' = alerts + 1
  /\ event' = Ev("cameraError", {"alert"})
  /\ UNCHANGED <<reactState, closureIsInteracting, hasSpeechRecognition,
                 inFlight, elapsed, synthQueue, recognitionRef, activeSessions, timers>>
  /\ UNCHANGED variantVars

\* The wall clock advances.
advanceClock ==
  /\ elapsed < ElapsedCap
  /\ elapsed' = IF elapsed + ClockStep > ElapsedCap THEN ElapsedCap
                ELSE elapsed + ClockStep
  /\ UNCHANGED <<reactState, closureIsInteracting, hasSpeechRecognition,
                 inFlight, loopPc, synthQueue, recognitionRef, activeSessions, timers,
                 alerts, event>>
  /\ UNCHANGED variantVars

\* Variant of detectPerson whose throttle test is >= instead of >.
detectPersonAtInterval ==
  /\ loopPc = "raf"
  /\ IF closureIsInteracting
       THEN UNCHANGED <<loopPc, elapsed, inFlight, event>>
       ELSE IF elapsed >= DETECTION_INTERVAL
              THEN /\ elapsed' = 0
                   /\ inFlight' = inFlight + 1
                   /\ loopPc' = "estimating"
                   /\ event' = Ev("detectPerson", {"estimateFaces"})
              ELSE UNCHANGED <<loopPc, elapsed, inFlight, event>>
  /\ UNCHANGED <<reactState, closureIsInteracting, hasSpeechRecognition,
                 synthQueue, recognitionRef, activeSessions, timers, alerts>>
  /\ UNCHANGED variantVars

\* Variant of detectPerson that re-arms the loop without awaiting the call.
detectPersonNoAwait ==
  /\ loopPc = "raf"
  /\ IF closureIsInteracting
       THEN UNCHANGED <<loopPc, elapsed, inFlight, event>>
       ELSE IF elapsed > DETECTION_INTERVAL
              THEN /\ elapsed' = 0
                   /\ inFlight' = inFlight + 1
                   /\ loopPc' = "raf"
                   /\ event' = Ev("detectPerson", {"estimateFaces"})
              ELSE UNCHANGED <<loopPc, elapsed, inFlight, event>>
  /\ UNCHANGED <<reactState, closureIsInteracting, hasSpeechRecognition,
                 synthQueue, recognitionRef, activeSessions, timers, alerts>>
  /\ UNCHANGED variantVars

\* An animation frame runs detectPerson up to the await of line 72.
detectPerson ==
  /\ loopPc = "raf"
  /\ IF closureIsInteracting
       THEN UNCHANGED <<loopPc, elapsed, inFlight, event>>
       ELSE IF elapsed > DETECTION_INTERVAL
              THEN /\ elapsed' = 0
                   /\ inFlight' = inFlight + 1
                   /\ loopPc' = "estimating"
                   /\ event' = Ev("detectPerson", {"estimateFaces"})
              ELSE UNCHANGED <<loopPc, elapsed, inFlight, event>>
  /\ UNCHANGED <<reactState, closureIsInteracting, hasSpeechRecognition,
                 synthQueue, recognitionRef, activeSessions, timers, alerts>>
  /\ UNCHANGED variantVars

\* Variant of estimateFacesResolves that starts listening as soon as speak
\* returns instead of in the greeting's onend.
estimateFacesResolvesListenAtOnce(n) ==
  /\ loopPc = "estimating"
  /\ IF n > 0
       THEN /\ personDetected' = TRUE
            /\ isInteracting' = TRUE
            /\ showButton' = FALSE
            /\ step' = "waiting"
            /\ synthQueue' = speak(synthQueue, GREETING, "none")
            /\ startListening
            /\ event' = Ev("faces", speakCalls(synthQueue) \cup startListeningCalls)
       ELSE /\ personDetected' = FALSE
            /\ showButton' = FALSE
            /\ step' = "idle"
            /\ event' = Ev("noFaces", {})
            /\ UNCHANGED <<isInteracting, synthQueue, recognitionRef,
                           activeSessions>>
  /\ loopPc' = "raf"
  /\ inFlight' = inFlight - 1
  /\ UNCHANGED <<closureIsInteracting, hasSpeechRecognition, elapsed,
                 timers, alerts>>
  /\ UNCHANGED variantVars

\* model.estimateFaces resolves with n predictions.
estimateFacesResolves(n) ==
  /\ loopPc = "estimating"
  /\ IF n > 0
       THEN /\ personDetected' = TRUE
            /\ isInteracting' = TRUE
            /\ showButton' = FALSE
            /\ step' = "waiting"
            /\ synthQueue' = speak(synthQueue, GREETING, "listen")
            /\ event' = Ev("faces", speakCalls(synthQueue))
       ELSE /\ personDetected' = FALSE
            /\ showButton' = FALSE
            /\ step' = "idle"
            /\ event' = Ev("noFaces", {})
            /\ UNCHANGED <<isInteracting, synthQueue>>
  /\ loopPc' = "raf"
  /\ inFlight' = inFlight - 1
  /\ UNCHANGED <<closureIsInteracting, hasSpeechRecognition, elapsed,
                 recognitionRef, activeSessions, timers, alerts>>
  /\ UNCHANGED variantVars

\* model.estimateFaces rejects: detectPerson throws before re-arming.
estimateFacesRejects ==
  /\ loopPc = "estimating"
  /\ loopPc' = "dead"
  /\ inFlight' = inFlight - 1
  /\ event' = Ev("locatorError", {})
  /\ UNCHANGED <<reactState, closureIsInteracting, hasSpeechRecognition,
                 elapsed, synthQueue, recognitionRef, activeSessions, timers,
                 alerts>>
  /\ UNCHANGED variantVars

\* The speech service signals the end of the utterance being spoken.
utteranceEnds ==
  /\ synthQueue # <<>>
  /\ synthQueue' = Tail(synthQueue)
  /\ LET u == Head(synthQueue)
     IN  /\ event' = [Ev("onend", IF u.onend = "listen"
                                     THEN startListeningCalls ELSE {})
                         EXCEPT !.text = u.text]
         /\ CASE u.onend = "listen" ->
                   /\ startListening
                   /\ UNCHANGED reactState
              [] u.onend = "resume" ->
                   /\ resumeDetection
                   /\ UNCHANGED <<recognitionRef, activeSessions>>
              [] OTHER ->
                   UNCHANGED <<reactState, recognitionRef, activeSessions>>
  /\ UNCHANGED <<closureIsInteracting, hasSpeechRecognition, inFlight, loopPc,
                 elapsed,
                 timers, alerts>>
  /\ UNCHANGED variantVars

\* The speech service cannot speak the utterance (no voice, synthesis
\* failed, audio busy): the utterance gets an 'error' event and no 'end'.
\* speak installs only onend (line 39), so no continuation runs.
utteranceFails ==
  /\ synthQueue # <<>>
  /\ synthQueue' = Tail(synthQueue)
  /\ event' = [Ev("utteranceError", {}) EXCEPT !.text = Head(synthQueue).text]
  /\ UNCHANGED <<reactState, closureIsInteracting, hasSpeechRecognition,
                 inFlight, loopPc, elapsed, recognitionRef, activeSessions,
                 timers, alerts>>
  /\ UNCHANGED variantVars

\* ------------------------------------------------------------- recognition
\* Variant of repliedYes that does not lower-case the transcript.
repliedYesCaseSensitive(transcript) == Includes(transcript, YES)

\* Line 119: the test handleSpeechResult branches on.
repliedYes(transcript) == Includes(ToLowerCase(transcript), YES)

\* handleSpeechResult, the body after the transcript is read.
handleSpeechResult(transcript) ==
  IF repliedYes(transcript)
    THEN /\ showButton' = TRUE
         /\ step' = "decision"
         /\ synthQueue' = speak(synthQueue, INSTRUCTIONS, "none")
    ELSE /\ showButton' = FALSE
         /\ step' = "end"
         /\ synthQueue' = speak(synthQueue, THANKS, "resume")

\* A listening session delivers its result: onresult = handleSpeechResult.
recognitionResult(transcript) ==
  /\ activeSessions > 0
  /\ activeSessions' = activeSessions - 1
  /\ recognitionRef' = IF recognitionRef = "listening" THEN "ended"
                       ELSE recognitionRef
  /\ handleSpeechResult(transcript)
  /\ event' = [Ev("onresult", speakCalls(synthQueue)) EXCEPT !.transcript = transcript]
  /\ UNCHANGED <<personDetected, isInteracting, closureIsInteracting,
                 hasSpeechRecognition, inFlight, loopPc, elapsed, timers,
                 alerts>>
  /\ UNCHANGED variantVars

\* A listening session ends without a result (no speech, no match, API
\* error): onerror is the null passed at line 92, so no handler runs.
recognitionError ==
  /\ activeSessions > 0
  /\ activeSessions' = activeSessions - 1
  /\ recognitionRef' = IF recognitionRef = "listening" THEN "ended"
                       ELSE recognitionRef
  /\ event' = Ev("onerror", {})
  /\ UNCHANGED <<reactState, closureIsInteracting, hasSpeechRecognition,
                 inFlight, loopPc, elapsed, synthQueue, timers, alerts>>
  /\ UNCHANGED variantVars

\* ----------------------------------------------------------------- capture
\* Variant of handleCapture whose button is rendered whatever showButton is.
handleCaptureAlwaysRendered ==
  /\ timers < MaxTimers
  /\ timers' = timers + 1
  /\ event' = Ev("capture", {})
  /\ UNCHANGED <<reactState, closureIsInteracting, hasSpeechRecognition,
                 inFlight, loopPc, elapsed, synthQueue, recognitionRef, activeSessions,
                 alerts>>
  /\ UNCHANGED variantVars

\* The visitor tries to capture.  The button that calls handleCapture is
\* rendered only while showButton (line 209); handleCapture itself draws the
\* frame and defers the rest by setTimeout.
handleCapture ==
  /\ showButton => timers < MaxTimers
  /\ timers' = IF showButton THEN timers + 1 ELSE timers
  /\ event' = Ev(IF showButton THEN "capture" ELSE "captureIgnored", {})
  /\ UNCHANGED <<reactState, closureIsInteracting, hasSpeechRecognition,
                 inFlight, loopPc, elapsed, synthQueue, recognitionRef, activeSessions,
                 alerts>>
  /\ UNCHANGED variantVars

\* Variant of captureTimeout that leaves the capture control shown.
captureTimeoutKeepsButton ==
  /\ timers > 0
  /\ timers' = timers - 1
  /\ synthQueue' = speak(synthQueue, THANKS_CAPTURE, "resume")
  /\ showButton' = showButton
  /\ step' = "end"
  /\ event' = Ev("captureTimeout", speakCalls(synthQueue))
  /\ UNCHANGED <<personDetected, isInteracting, closureIsInteracting,
                 hasSpeechRecognition, inFlight, loopPc, elapsed,
                 recognitionRef, activeSessions, alerts>>
  /\ UNCHANGED variantVars

\* The timeout set by handleCapture fires.
captureTimeout ==
  /\ timers > 0
  /\ timers' = timers - 1
  /\ synthQueue' = speak(synthQueue, THANKS_CAPTURE, "resume")
  /\ showButton' = FALSE
  /\ step' = "end"
  /\ event' = Ev("captureTimeout", speakCalls(synthQueue))
  /\ UNCHANGED <<personDetected, isInteracting, closureIsInteracting,
                 hasSpeechRecognition, inFlight, loopPc, elapsed,
                 recognitionRef, activeSessions, alerts>>
  /\ UNCHANGED variantVars

\* ----------------------------------------------------------- specification
\* The steps of a run in which every utterance is spoken to its end.
NextSpoken ==
  \/ setupCameraReady
  \/ setupCameraFails
  \/ advanceClock
  \/ detectPerson
  \/ \E n \in 0..MaxFaces : estimateFacesResolves(n)
  \/ estimateFacesRejects
  \/ utteranceEnds
  \/ \E t \in Transcripts : recognitionResult(t)
  \/ recognitionError
  \/ handleCapture
  \/ captureTimeout

Next ==
  \/ NextSpoken
  \/ utteranceFails

Spec == Init /\ [][Next]_vars

TypeOK ==
  /\ personDetected \in BOOLEAN
  /\ step \in {"idle", "waiting", "decision", "end"}
  /\ showButton \in BOOLEAN
  /\ isInteracting \in BOOLEAN
  /\ closureIsInteracting \in BOOLEAN
  /\ hasSpeechRecognition \in BOOLEAN
  /\ loopPc \in {"setup", "raf", "estimating", "dead"}
  /\ elapsed \in 0..ElapsedCap
  /\ Len(synthQueue) <= 1
  /\ recognitionRef \in {"null", "listening", "ended"}
  /\ activeSessions \in 0..1
  /\ timers \in 0..MaxTimers
  /\ alerts \in 0..1
  /\ inFlight \in 0..1

\* Fairness: every issued utterance eventually ends, every started
\* recognition session eventually delivers a result or an error, a visitor
\* shown the capture control eventually uses it, timeouts fire, animation
\* frames run, Face Locator calls settle and the clock advances.  The browser
\* has a SpeechRecognition implementation, so sessions are started.
LiveInit == Init /\ hasSpeechRecognition

LiveSpec ==
  /\ LiveInit
  /\ [][NextSpoken]_vars
  /\ WF_vars(utteranceEnds)
  /\ WF_vars((\E t \in Transcripts : recognitionResult(t)) \/ recognitionError)
  /\ WF_vars(showButton /\ handleCapture)
  /\ WF_vars(captureTimeout)
  /\ WF_vars(detectPerson)
  /\ WF_vars((\E n \in 0..MaxFaces : estimateFacesResolves(n))
               \/ estimateFacesRejects)
  /\ WF_vars(advanceClock)

\* The same fairness, in a browser with or without SpeechRecognition.
LiveSpecAnyBrowser ==
  /\ Init
  /\ [][NextSpoken]_vars
  /\ WF_vars(utteranceEnds)
  /\ WF_vars((\E t \in Transcripts : recognitionResult(t)) \/ recognitionError)
  /\ WF_vars(showButton /\ handleCapture)
  /\ WF_vars(captureTimeout)
  /\ WF_vars(detectPerson)
  /\ WF_vars((\E n \in 0..MaxFaces : estimateFacesResolves(n))
               \/ estimateFacesRejects)
  /\ WF_vars(advanceClock)

\* ------------------------------------------------------------------ claims
IdleState ==
  /\ step = "idle"
  /\ ~showButton
  /\ ~personDetected
  /\ ~isInteracting

Utterance(text, callback) == [text |-> text, onend |-> callback]

\* C1: while a conversation is in flight (isInteracting set by a face
\* detection and not yet cleared by resumeDetection) the detection loop
\* starts no Face Locator call.
C1_NoLocatorCallDuringConversation ==
  [][(loopPc # "estimating" /\ loopPc' = "estimating") => ~isInteracting]_vars

\* C2: the greeting is issued once per conversation: a detection with faces
\* issues the greeting only when no conversation is in flight.
C2_OneGreetingPerConversation ==
  [][(loopPc = "estimating" /\ event'.name = "faces"
        /\ synthQueue' = <<Utterance(GREETING, "listen")>>)
       => ~isInteracting]_vars

\* C3 (as amended): after handleSpeechResult, a transcript whose lower-cased
\* text contains "yes" (whether or not it also contains "no") has shown the
\* capture control, set step 'decision' and issued the capture instructions;
\* every other transcript, the empty one included, has hidden the control,
\* set step 'end' and issued the thanks utterance.
C3_RoutesOnYes ==
  event.name = "onresult" =>
    IF Includes(ToLowerCase(event.transcript), YES)
      THEN /\ showButton
           /\ step = "decision"
           /\ synthQueue = <<Utterance(INSTRUCTIONS, "none")>>
      ELSE /\ ~showButton
           /\ step = "end"
           /\ synthQueue = <<Utterance(THANKS, "resume")>>

\* C3 witness: a transcript with both tokens and upper case was routed.
C3_Witness ==
  /\ event.name = "onresult"
  /\ event.transcript = <<"n","o"," ","Y","E","S">>
  /\ step = "decision"
  /\ showButton

\* C3 (as stated): a transcript containing "yes" goes to AwaitingCapture and
\* a transcript containing "no", or neither token, goes to Farewell.
C3_Original ==
  event.name = "onresult" =>
    LET t == ToLowerCase(event.transcript)
    IN  /\ Includes(t, YES) =>
             /\ showButton
             /\ step = "decision"
             /\ synthQueue = <<Utterance(INSTRUCTIONS, "none")>>
        /\ (Includes(t, NO) \/ (~Includes(t, YES) /\ ~Includes(t, NO))) =>
             /\ ~showButton
             /\ step = "end"
             /\ synthQueue = <<Utterance(THANKS, "resume")>>

\* C4: when the recognition session reports an error the machine is in
\* Farewell (step 'end') with the thanks utterance issued and the capture
\* control hidden.
C4_ErrorRoutesToFarewell ==
  event.name = "onerror" =>
    /\ step = "end"
    /\ ~showButton
    /\ synthQueue = <<Utterance(THANKS, "resume")>>

\* C5: under the fairness of LiveSpec every state with step # 'idle' is
\* eventually followed by a state where resumeDetection has run.
C5_EveryConversationEnds ==
  (step # "idle") ~> (step = "idle" /\ ~isInteracting)

\* C6: recognition.start is called only in the step in which the speech
\* service signals the end of the greeting utterance, after which no
\* utterance is outstanding.
C6_ListenOnlyAfterGreetingEnds ==
  [][("start" \in event'.calls /\ event' # event) =>
       /\ synthQueue # <<>>
       /\ Head(synthQueue) = Utterance(GREETING, "listen")
       /\ synthQueue' = <<>>
       /\ event'.name = "onend"]_vars

\* C6 witness: a session was started by the end of the greeting.
C6_Witness ==
  /\ event.name = "onend"
  /\ event.text = GREETING
  /\ "start" \in event.calls
  /\ recognitionRef = "listening"
  /\ synthQueue = <<>>

\* C7: a capture attempt while step is not 'decision' changes none of step,
\* showButton, personDetected, isInteracting, the outstanding utterances,
\* the recognition sessions and the pending capture timeouts; a capture is
\* accepted only while step is 'decision'.
C7_CaptureOnlyInDecision ==
  [][/\ (event'.name \in {"capture", "captureIgnored"} /\ step # "decision")
          => UNCHANGED <<reactState, synthQueue, recognitionRef,
                         activeSessions, timers>>
     /\ timers' > timers => step = "decision"]_vars

\* C7 witness: a capture attempt was ignored during the greeting.
C7_Witness ==
  /\ event.name = "captureIgnored"
  /\ step = "waiting"
  /\ synthQueue = <<Utterance(GREETING, "listen")>>
  /\ timers = 0

\* C8: when the thanks utterance ends, resumeDetection leaves the initial
\* values (control hidden, personDetected and isInteracting false, step
\* 'idle'), and a detection with faces from those values starts a
\* conversation with a new greeting.
C8_ResumeRestoresIdle ==
  [][/\ (event'.name = "onend" /\ event'.text \in {THANKS, THANKS_CAPTURE})
          => IdleState'
     /\ (IdleState /\ loopPc = "estimating" /\ event'.name = "faces")
          => /\ step' = "waiting"
             /\ isInteracting'
             /\ personDetected'
             /\ ~showButton'
             /\ synthQueue' = <<Utterance(GREETING, "listen")>>]_vars

\* C8 witness: resumeDetection has run after the thanks utterance and the
\* detection loop is alive.
C8_Witness ==
  /\ event.name = "onend"
  /\ event.text = THANKS_CAPTURE
  /\ IdleState
  /\ loopPc = "raf"

\* C9: at most one speech request (utterance or recognition session) is
\* outstanding.
C9_OneSpeechRequest == Len(synthQueue) + activeSessions <= 1

\* C10: at most one recognition session is active, and it is the one held
\* in recognitionRef.
C10_OneRecognitionSession ==
  /\ activeSessions <= 1
  /\ activeSessions = 1 <=> recognitionRef = "listening"

\* C10 witness: a session was started after the previous one was aborted.
C10_Witness ==
  /\ event.name = "onend"
  /\ {"abort", "start"} \subseteq event.calls
  /\ activeSessions = 1
  /\ recognitionRef = "listening"

\* The states of the transition table, as the claims map them.
Greeting ==
  /\ step = "waiting"
  /\ synthQueue # <<>>
  /\ Head(synthQueue).text = GREETING

Listening ==
  /\ step = "waiting"
  /\ synthQueue = <<>>
  /\ activeSessions > 0

\* C11: a recognition result delivered while the machine is not Listening
\* changes neither step nor showButton and issues no speech.
C11_ResultOnlyWhileListening ==
  [][(event'.name = "onresult" /\ activeSessions' < activeSessions
        /\ ~Listening)
       => UNCHANGED <<step, showButton, synthQueue>>]_vars

\* C12: an utterance the speech service cannot speak is treated as complete:
\* its continuation has run, so after a failed greeting a recognition session
\* is listening and after a failed thanks the machine is back in Idle.
C12_UnspeakableTurnCompletes ==
  event.name = "utteranceError" =>
    /\ (event.text = GREETING /\ hasSpeechRecognition)
          => recognitionRef = "listening"
    /\ event.text \in {THANKS, THANKS_CAPTURE}
          => (step = "idle" /\ ~isInteracting)

\* C13: after a rejected Face Locator call the state is as after an empty
\* detection and the detection loop is armed for the next frame.
C13_LocatorFailureIsNoDetection ==
  event.name = "locatorError" =>
    /\ loopPc = "raf"
    /\ ~personDetected
    /\ ~showButton
    /\ step = "idle"

\* C14: Face Locator calls never overlap: at most one model.estimateFaces
\* call is in flight.
C14_NoOverlappingLocatorCalls == inFlight <= 1

\* C14 witness: a call is in flight that was started after an earlier call
\* had returned faces.
C14_Witness ==
  /\ inFlight = 1
  /\ loopPc = "estimating"
  /\ event.name = "detectPerson"
  /\ isInteracting

\* C15: the accept scenario: each of its events takes the machine to the
\* next state of Idle, Greeting, Listening, AwaitingCapture, Farewell, Idle,
\* and during the run (isInteracting set at the detection, cleared at the
\* final return to Idle) detection stays paused: no Face Locator call is
\* started and isInteracting changes nowhere else.
C15_AcceptScenario ==
  [][/\ (IdleState /\ loopPc = "estimating" /\ event'.name = "faces")
          => Greeting'
     /\ (Greeting /\ hasSpeechRecognition /\ event'.name = "onend"
           /\ synthQueue' = <<>>)
          => Listening'
     /\ (Listening /\ event'.name = "onresult" /\ event'.transcript = YES
           /\ activeSessions' < activeSessions)
          => (step' = "decision" /\ showButton')
     /\ (step = "decision" /\ timers' < timers)
          => (step' = "end"
                /\ synthQueue' = <<Utterance(THANKS_CAPTURE, "resume")>>)
     /\ (step = "end" /\ synthQueue # <<>> /\ event'.name = "onend"
           /\ synthQueue' = <<>>)
          => IdleState'
     /\ isInteracting => ~(inFlight' > inFlight)
     /\ isInteracting' # isInteracting
          => event'.name \in {"faces", "onend"}]_vars

\* C16: refinement of the transition table.  VisitorState maps the code's
\* state to the table's; every step keeps the mapped state or follows a row.
VisitorState ==
  CASE step = "idle" -> "Idle"
    [] Greeting -> "Greeting"
    [] Listening -> "Listening"
    [] step = "decision" -> "AwaitingCapture"
    [] step = "end" -> "Farewell"
    [] OTHER -> "Unmapped"

TableRow(from, trigger, to) ==
  \/ from = "Idle" /\ trigger.name = "faces" /\ to = "Greeting"
  \/ from = "Greeting" /\ trigger.name = "onend" /\ to = "Listening"
  \/ /\ from = "Listening"
     /\ trigger.name = "onresult"
     /\ Includes(ToLowerCase(trigger.transcript), YES)
     /\ to = "AwaitingCapture"
  \/ /\ from = "Listening"
     /\ \/ /\ trigger.name = "onresult"
           /\ ~Includes(ToLowerCase(trigger.transcript), YES)
        \/ trigger.name = "onerror"
     /\ to = "Farewell"
  \/ /\ from = "AwaitingCapture"
     /\ trigger.name = "captureTimeout"
     /\ to = "Farewell"
  \/ from = "Farewell" /\ trigger.name = "onend" /\ to = "Idle"

C16_RefinesTransitionTable ==
  [][/\ VisitorState' # "Unmapped"
     /\ \/ VisitorState' = VisitorState
        \/ TableRow(VisitorState, event', VisitorState')]_vars

\* C17: the no-face branch of detectPerson leaves step, showButton and
\* isInteracting as they were, starts or cancels no utterance and no
\* recognition session, and re-arms the loop.
C17_NoFaceHasNoEffect ==
  [][(loopPc = "estimating" /\ event'.name = "noFaces")
       => /\ UNCHANGED <<step, showButton, isInteracting, synthQueue,
                         recognitionRef, activeSessions>>
          /\ loopPc' = "raf"]_vars

\* C18: without a SpeechRecognition implementation, once the greeting has
\* ended the machine eventually returns to Idle with detection resumed.
C18_NoRecognitionStillEnds ==
  (~hasSpeechRecognition /\ event.name = "onend" /\ event.text = GREETING)
    ~> (step = "idle" /\ ~isInteracting)

\* C19: a camera failure is alerted exactly once, after which the detection
\* loop is never started, no Face Locator call has been made (lastDetection
\* is still 0) and nothing of the conversation has begun.
C19_CameraFailureAlertedOnce ==
  /\ alerts <= 1
  /\ event.name = "cameraError" => alerts = 1
  /\ alerts = 1 =>
       /\ loopPc = "dead"
       /\ inFlight = 0
       /\ elapsed = ElapsedCap
       /\ IdleState
       /\ synthQueue = <<>>
       /\ activeSessions = 0

\* C19 witness: the camera failed and the visitor later pressed in vain.
C19_Witness ==
  /\ alerts = 1
  /\ loopPc = "dead"
  /\ event.name = "captureIgnored"

\* C20: isInteracting holds exactly when step is not 'idle', and
\* personDetected exactly when isInteracting.
C20_FlagsConsistent ==
  /\ isInteracting <=> step # "idle"
  /\ personDetected <=> isInteracting

\* C21: the capture control is shown exactly while step is 'decision'.
C21_ButtonIffDecision == showButton <=> step = "decision"

\* C21 witness: the control is shown in 'decision' after a "yes" reply.
C21_Witness ==
  /\ showButton
  /\ step = "decision"
  /\ event.name = "onresult"

\* C22: the deferred completion of a capture (the thanks utterance of
\* handleCapture and its resumeDetection continuation) runs only while step
\* is still 'decision', hence at most once between entering 'decision' and
\* the return to 'idle', however many captures were accepted.
C22_OneCapturePerConversation ==
  [][(timers' < timers) => step = "decision"]_vars

\* C23: a continuation runs only when the speech service signals the end of
\* the one outstanding utterance, which is the utterance the latest speak
\* issued; that utterance is then removed, so the continuation cannot run
\* again; the speak that supersedes an utterance starts no session and does
\* not run resumeDetection, and the superseded utterance is outstanding no
\* more.
C23_ContinuationOnlyForLatestUtterance ==
  [][/\ Len(synthQueue') <= 1
     /\ ("cancelled" \in event'.calls /\ event' # event)
          => /\ Len(synthQueue) = 1
             /\ Len(synthQueue') = 1
             /\ "start" \notin event'.calls
             /\ step' # "idle"
     /\ (event'.name = "onend" /\ synthQueue' # synthQueue)
          => /\ Len(synthQueue) = 1
             /\ synthQueue' = <<>>
             /\ event'.text = Head(synthQueue).text]_vars

\* C23 witness: a speak superseded the utterance that was being spoken.
C23_Witness ==
  /\ "cancelled" \in event.calls
  /\ event.name = "captureTimeout"
  /\ synthQueue = <<Utterance(THANKS_CAPTURE, "resume")>>

\* C24: a Face Locator call is started only when more than
\* DETECTION_INTERVAL milliseconds have passed since the previous call was
\* started (since time 0 for the first call).
C24_Throttled ==
  [][(inFlight' > inFlight) => elapsed > DETECTION_INTERVAL]_vars

\* C24 witness: a second call was started, a conversation being in flight.
C24_Witness ==
  /\ event.name = "detectPerson"
  /\ elapsed = 0
  /\ inFlight = 1
  /\ personDetected

\* ---------------------------------------------------- variant part_000
\* src/unnamed/part_000: the variant with hasGreetingSpoken, whose greeting
\* is issued by an effect on [step, personDetected].  Its step is one of
\* start | greeted | response | end.  The camera set-up, the throttled loop,
\* speak and setupSpeechRecognition read as in src/src/App.jsx.
MaxGreetings == 2    \* greetings counted in one detection event

P0_INSTRUCTIONS == "Please click the button in the tablet to take a photo."

\* The personDetected binding detectPerson closes over: detectPerson is made
\* by the effect of lines 50-113 (deps []), so it is the first render's.
P0_closurePersonDetected == FALSE

\* The personDetected binding of the handleSpeechResult given to a session:
\* that of the render whose speech-flow effect issued the greeting (line 118
\* requires personDetected).
P0_handlerPersonDetected == TRUE

\* The variables no part_000 handler touches.
P0_Others == <<isInteracting, closureIsInteracting, mode, loops, hasSpoken,
               isListening>>

P0_Init ==
  /\ personDetected = FALSE
  /\ step = "start"
  /\ showButton = FALSE
  /\ hasGreetingSpoken = FALSE
  /\ greetings = 0
  /\ hasSpeechRecognition \in BOOLEAN
  /\ loopPc = "setup"
  /\ elapsed = ElapsedCap
  /\ synthQueue = <<>>
  /\ recognitionRef = "null"
  /\ activeSessions = 0
  /\ timers = 0
  /\ alerts = 0
  /\ inFlight = 0
  /\ event = Ev("mount", {})
  /\ isInteracting = FALSE
  /\ closureIsInteracting = FALSE
  /\ mode = "idle"
  /\ loops = <<>>
  /\ hasSpoken = FALSE
  /\ isListening = FALSE

\* Lines 116-128: whether the speech-flow effect, run after a render with
\* these values, issues the greeting.  The effect runs only when step or
\* personDetected differs from the previous render.
P0_greets(pd, st, hgs) ==
  /\ st # step \/ pd # personDetected
  /\ st = "greeted"
  /\ ~hgs
  /\ pd

\* A handler has set personDetected, step and hasGreetingSpoken to pd, st
\* and hgs and left the speech queue as queue; the render and the
\* speech-flow effect follow.
P0_speechFlowEffect(pd, st, hgs, queue) ==
  /\ personDetected' = pd
  /\ step' = st
  /\ IF P0_greets(pd, st, hgs)
       THEN /\ hasGreetingSpoken' = TRUE
            /\ synthQueue' = speak(queue, GREETING, "listen")
       ELSE /\ hasGreetingSpoken' = hgs
            /\ synthQueue' = queue

P0_setupCameraReady ==
  /\ loopPc = "setup"
  /\ loopPc' = "raf"
  /\ event' = Ev("cameraReady", {})
  /\ UNCHANGED <<personDetected, step, showButton, hasGreetingSpoken,
                 greetings, hasSpeechRecognition, elapsed, synthQueue,
                 recognitionRef, activeSessions, timers, alerts, inFlight,
                 P0_Others>>

P0_setupCameraFails ==
  /\ loopPc = "setup"
  /\ loopPc' = "dead"
  /\ alerts' = alerts + 1
  /\ event' = Ev("cameraError", {"alert"})
  /\ UNCHANGED <<personDetected, step, showButton, hasGreetingSpoken,
                 greetings, hasSpeechRecognition, elapsed, synthQueue,
                 recognitionRef, activeSessions, timers, inFlight,
                 P0_Others>>

\* An animation frame runs detectPerson up to the await of line 73.
P0_detectPerson ==
  /\ loopPc = "raf"
  /\ IF elapsed > DETECTION_INTERVAL
       THEN /\ elapsed' = 0
            /\ inFlight' = inFlight + 1
            /\ loopPc' = "estimating"
            /\ event' = Ev("detectPerson", {"estimateFaces"})
       ELSE UNCHANGED <<loopPc, elapsed, inFlight, event>>
  /\ UNCHANGED <<personDetected, step, showButton, hasGreetingSpoken,
                 greetings, hasSpeechRecognition, synthQueue,
                 recognitionRef, activeSessions, timers, alerts, P0_Others>>

\* model.estimateFaces resolves with n predictions (lines 77-98).
P0_estimateFacesResolves(n) ==
  /\ loopPc = "estimating"
  /\ IF n > 0
       THEN /\ IF ~P0_closurePersonDetected
                 THEN /\ showButton' = FALSE
                      /\ P0_speechFlowEffect(TRUE, "greeted", FALSE,
                                             synthQueue)
                      /\ greetings' =
                           IF P0_greets(TRUE, "greeted", FALSE)
                                /\ greetings < MaxGreetings
                             THEN greetings + 1 ELSE greetings
                      /\ event' =
                           Ev("faces",
                              IF P0_greets(TRUE, "greeted", FALSE)
                                THEN speakCalls(synthQueue) ELSE {})
                 ELSE /\ event' = Ev("faces", {})
                      /\ UNCHANGED <<personDetected, step, showButton,
                                     hasGreetingSpoken, synthQueue,
                                     greetings>>
       ELSE /\ IF P0_closurePersonDetected
                 THEN /\ showButton' = FALSE
                      /\ P0_speechFlowEffect(FALSE, "start", FALSE,
                                             synthQueue)
                 ELSE UNCHANGED <<personDetected, step, showButton,
                                  hasGreetingSpoken, synthQueue>>
            /\ greetings' = 0
            /\ event' = Ev("noFaces", {})
  /\ loopPc' = "raf"
  /\ inFlight' = inFlight - 1
  /\ UNCHANGED <<hasSpeechRecognition, elapsed, recognitionRef,
                 activeSessions, timers, alerts, P0_Others>>

\* The speech service signals the end of the utterance being spoken; only
\* the greeting has a continuation (lines 120-125).
P0_utteranceEnds ==
  /\ synthQueue # <<>>
  /\ synthQueue' = Tail(synthQueue)
  /\ LET u == Head(synthQueue)
     IN  /\ event' = [Ev("onend", IF u.onend = "listen"
                                     THEN startListeningCalls ELSE {})
                         EXCEPT !.text = u.text]
         /\ IF u.onend = "listen"
              THEN startListening
              ELSE UNCHANGED <<recognitionRef, activeSessions>>
  /\ UNCHANGED <<personDetected, step, showButton, hasGreetingSpoken,
                 greetings, hasSpeechRecognition, loopPc, elapsed, timers,
                 alerts, inFlight, P0_Others>>

\* handleSpeechResult (lines 131-143), the body after the transcript is read.
P0_handleSpeechResult(transcript) ==
  IF ~P0_handlerPersonDetected
    THEN UNCHANGED <<personDetected, step, showButton, hasGreetingSpoken,
                     synthQueue>>
    ELSE IF Includes(ToLowerCase(transcript), YES)
           THEN /\ showButton' = TRUE
                /\ P0_speechFlowEffect(personDetected, "response",
                     hasGreetingSpoken,
                     speak(synthQueue, P0_INSTRUCTIONS, "none"))
           ELSE /\ showButton' = FALSE
                /\ P0_speechFlowEffect(personDetected, "end",
                     hasGreetingSpoken,
                     speak(synthQueue, THANKS, "none"))

\* A listening session delivers its result.
P0_recognitionResult(transcript) ==
  /\ activeSessions > 0
  /\ activeSessions' = activeSessions - 1
  /\ recognitionRef' = IF recognitionRef = "listening" THEN "ended"
                       ELSE recognitionRef
  /\ P0_handleSpeechResult(transcript)
  /\ event' = [Ev("onresult", speakCalls(synthQueue))
                 EXCEPT !.transcript = transcript]
  /\ UNCHANGED <<greetings, hasSpeechRecognition, loopPc, elapsed, timers,
                 alerts, inFlight, P0_Others>>

\* A listening session ends without a result: handleSpeechError (lines
\* 144-146) does nothing.
P0_recognitionError ==
  /\ activeSessions > 0
  /\ activeSessions' = activeSessions - 1
  /\ recognitionRef' = IF recognitionRef = "listening" THEN "ended"
                       ELSE recognitionRef
  /\ event' = Ev("onerror", {})
  /\ UNCHANGED <<personDetected, step, showButton, hasGreetingSpoken,
                 greetings, hasSpeechRecognition, loopPc, elapsed,
                 synthQueue, timers, alerts, inFlight, P0_Others>>

\* The capture button is rendered only while showButton (line 219);
\* handleCapture (lines 148-156) draws the frame and sets a timeout.
P0_handleCapture ==
  /\ showButton
  /\ timers < MaxTimers
  /\ timers' = timers + 1
  /\ event' = Ev("capture", {})
  /\ UNCHANGED <<personDetected, step, showButton, hasGreetingSpoken,
                 greetings, hasSpeechRecognition, loopPc, elapsed,
                 synthQueue, recognitionRef, activeSessions, alerts,
                 inFlight, P0_Others>>

\* The timeout set by handleCapture fires (lines 151-155).
P0_captureTimeout ==
  /\ timers > 0
  /\ timers' = timers - 1
  /\ showButton' = FALSE
  /\ P0_speechFlowEffect(personDetected, "end", hasGreetingSpoken,
                         speak(synthQueue, THANKS_CAPTURE, "none"))
  /\ event' = Ev("captureTimeout", speakCalls(synthQueue))
  /\ UNCHANGED <<greetings, hasSpeechRecognition, loopPc, elapsed,
                 recognitionRef, activeSessions, alerts, inFlight,
                 P0_Others>>

P0_Next ==
  \/ P0_setupCameraReady
  \/ P0_setupCameraFails
  \/ advanceClock
  \/ P0_detectPerson
  \/ \E n \in 0..MaxFaces : P0_estimateFacesResolves(n)
  \/ P0_utteranceEnds
  \/ \E t \in Transcripts : P0_recognitionResult(t)
  \/ P0_recognitionError
  \/ P0_handleCapture
  \/ P0_captureTimeout

P0_Spec == P0_Init /\ [][P0_Next]_vars

\* C27: between the tick at which a face is first detected and the next
\* tick without a face the greeting is issued at most once, whatever step
\* has become in between.
C27_OneGreetingPerDetectionEvent == greetings <= 1

\* ------------------------------------------ variant part_001, mode-based
\* src/unnamed/part_001, lines 216-450: the variant whose state is mode
\* (idle | interacting | end) and whose detection effect depends on [mode].
\* Every run of that effect (on mount and after each render in which mode
\* changed) calls setupCamera, which makes a new detectPerson loop closed over
\* the mode of that render.  The function returned at line 321 is the
\* result of setupCamera, not of the effect, so the effect has no cleanup.
MaxLoops == 3        \* most runs of the [mode] effect

\* The variables no handler of the mode variant touches.
Mode_Others == <<personDetected, step, isInteracting, closureIsInteracting,
                 hasGreetingSpoken, greetings, hasSpoken, isListening,
                 loopPc, elapsed>>

\* The loop a run of the effect makes in a render whose mode is m:
\* lastDetection = 0 (line 268) and setupCamera not yet finished.
Mode_newLoop(m) == [mode |-> m, pc |-> "setup", elapsed |-> ElapsedCap]

\* Lines 265-326: setMode(m) by a handler, then the render and, if mode
\* changed, the effect.
Mode_setMode(m) ==
  /\ mode' = m
  /\ loops' = IF m # mode THEN Append(loops, Mode_newLoop(m)) ELSE loops

\* Loops that have been started and re-arm themselves by
\* requestAnimationFrame.
Mode_aliveLoops == {i \in DOMAIN loops : loops[i].pc \in {"raf", "estimating"}}

Mode_Init ==
  /\ mode = "idle"
  /\ showButton = FALSE
  /\ loops = <<Mode_newLoop("idle")>>
  /\ hasSpeechRecognition \in BOOLEAN
  /\ synthQueue = <<>>
  /\ recognitionRef = "null"
  /\ activeSessions = 0
  /\ timers = 0
  /\ alerts = 0
  /\ inFlight = 0
  /\ event = Ev("mount", {})
  /\ personDetected = FALSE
  /\ step = "idle"
  /\ isInteracting = FALSE
  /\ closureIsInteracting = FALSE
  /\ hasGreetingSpoken = FALSE
  /\ greetings = 0
  /\ hasSpoken = FALSE
  /\ isListening = FALSE
  /\ loopPc = "setup"
  /\ elapsed = ElapsedCap

\* setupCamera of loop i succeeds and calls detectPerson for the first time.
Mode_setupCameraReady(i) ==
  /\ loops[i].pc = "setup"
  /\ loops' = [loops EXCEPT ![i].pc = "raf"]
  /\ event' = Ev("cameraReady", {})
  /\ UNCHANGED <<mode, showButton, hasSpeechRecognition, synthQueue,
                 recognitionRef, activeSessions, timers, alerts, inFlight,
                 Mode_Others>>

\* setupCamera of loop i fails: camera unsupported or getUserMedia rejects.
Mode_setupCameraFails(i) ==
  /\ loops[i].pc = "setup"
  /\ loops' = [loops EXCEPT ![i].pc = "dead"]
  /\ alerts' = alerts + 1
  /\ event' = Ev("cameraError", {"alert"})
  /\ UNCHANGED <<mode, showButton, hasSpeechRecognition, synthQueue,
                 recognitionRef, activeSessions, timers, inFlight,
                 Mode_Others>>

\* The wall clock advances: every loop's now - lastDetection grows.
Mode_advanceClock ==
  /\ \E i \in DOMAIN loops : loops[i].elapsed < ElapsedCap
  /\ loops' = [i \in DOMAIN loops |->
                 [loops[i] EXCEPT !.elapsed =
                    IF @ + ClockStep > ElapsedCap THEN ElapsedCap
                    ELSE @ + ClockStep]]
  /\ UNCHANGED <<mode, showButton, hasSpeechRecognition, synthQueue,
                 recognitionRef, activeSessions, timers, alerts, inFlight,
                 event, Mode_Others>>

\* An animation frame runs detectPerson of loop i up to the await of line
\* 291; mode (line 283) is the binding of the render that made the loop.
Mode_detectPerson(i) ==
  /\ loops[i].pc = "raf"
  /\ IF loops[i].mode # "idle"
       THEN UNCHANGED <<loops, inFlight, event>>
       ELSE IF loops[i].elapsed > DETECTION_INTERVAL
              THEN /\ loops' = [loops EXCEPT ![i].elapsed = 0,
                                             ![i].pc = "estimating"]
                   /\ inFlight' = inFlight + 1
                   /\ event' = Ev("detectPerson", {"estimateFaces"})
              ELSE UNCHANGED <<loops, inFlight, event>>
  /\ UNCHANGED <<mode, showButton, hasSpeechRecognition, synthQueue,
                 recognitionRef, activeSessions, timers, alerts,
                 Mode_Others>>

\* model.estimateFaces of loop i resolves with n predictions (lines
\* 295-313).
Mode_estimateFacesResolves(i, n) ==
  /\ loops[i].pc = "estimating"
  /\ n > 0 /\ mode # "interacting" => Len(loops) < MaxLoops
  /\ LET rearmed == [loops EXCEPT ![i].pc = "raf"]
     IN  IF n > 0
           THEN /\ mode' = "interacting"
                /\ loops' = IF mode # "interacting"
                              THEN Append(rearmed, Mode_newLoop("interacting"))
                              ELSE rearmed
                /\ showButton' = FALSE
                /\ synthQueue' = speak(synthQueue, GREETING, "listen")
                /\ event' = Ev("faces", speakCalls(synthQueue))
           ELSE /\ loops' = rearmed
                /\ event' = Ev("noFaces", {})
                /\ UNCHANGED <<mode, showButton, synthQueue>>
  /\ inFlight' = inFlight - 1
  /\ UNCHANGED <<hasSpeechRecognition, recognitionRef, activeSessions,
                 timers, alerts, Mode_Others>>

\* The speech service signals the end of the utterance being spoken and its
\* continuation runs: start listening (lines 306-310), setMode("idle")
\* (line 337), or hide the button and setMode("idle") (lines 346-349).
Mode_utteranceEnds ==
  /\ synthQueue # <<>>
  /\ Head(synthQueue).onend \in {"idle", "captureDone"} /\ mode # "idle"
       => Len(loops) < MaxLoops
  /\ synthQueue' = Tail(synthQueue)
  /\ LET u == Head(synthQueue)
     IN  /\ event' = [Ev("onend", IF u.onend = "listen"
                                     THEN startListeningCalls ELSE {})
                         EXCEPT !.text = u.text]
         /\ CASE u.onend = "listen" ->
                   /\ startListening
                   /\ UNCHANGED <<mode, loops, showButton>>
              [] u.onend = "idle" ->
                   /\ Mode_setMode("idle")
                   /\ UNCHANGED <<showButton, recognitionRef, activeSessions>>
              [] u.onend = "captureDone" ->
                   /\ showButton' = FALSE
                   /\ Mode_setMode("idle")
                   /\ UNCHANGED <<recognitionRef, activeSessions>>
              [] OTHER ->
                   UNCHANGED <<mode, loops, showButton, recognitionRef,
                               activeSessions>>
  /\ UNCHANGED <<hasSpeechRecognition, timers, alerts, inFlight,
                 Mode_Others>>

\* handleSpeechResult (lines 329-339), the body after the transcript is read.
Mode_handleSpeechResult(transcript) ==
  IF Includes(ToLowerCase(transcript), YES)
    THEN /\ showButton' = TRUE
         /\ synthQueue' = speak(synthQueue, INSTRUCTIONS, "none")
    ELSE /\ showButton' = FALSE
         /\ synthQueue' = speak(synthQueue, THANKS, "idle")

\* A listening session delivers its result.
Mode_recognitionResult(transcript) ==
  /\ activeSessions > 0
  /\ activeSessions' = activeSessions - 1
  /\ recognitionRef' = IF recognitionRef = "listening" THEN "ended"
                       ELSE recognitionRef
  /\ Mode_handleSpeechResult(transcript)
  /\ event' = [Ev("onresult", speakCalls(synthQueue))
                 EXCEPT !.transcript = transcript]
  /\ UNCHANGED <<mode, loops, hasSpeechRecognition, timers, alerts,
                 inFlight, Mode_Others>>

\* A listening session ends without a result: onerror is the null passed at
\* line 308.
Mode_recognitionError ==
  /\ activeSessions > 0
  /\ activeSessions' = activeSessions - 1
  /\ recognitionRef' = IF recognitionRef = "listening" THEN "ended"
                       ELSE recognitionRef
  /\ event' = Ev("onerror", {})
  /\ UNCHANGED <<mode, loops, showButton, hasSpeechRecognition, synthQueue,
                 timers, alerts, inFlight, Mode_Others>>

\* The capture button is rendered only while showButton (line 414);
\* handleCapture (lines 342-351) draws the frame and sets a timeout.
Mode_handleCapture ==
  /\ showButton
  /\ timers < MaxTimers
  /\ timers' = timers + 1
  /\ event' = Ev("capture", {})
  /\ UNCHANGED <<mode, loops, showButton, hasSpeechRecognition, synthQueue,
                 recognitionRef, activeSessions, alerts, inFlight,
                 Mode_Others>>

\* The timeout set by handleCapture fires (lines 345-350).
Mode_captureTimeout ==
  /\ timers > 0
  /\ timers' = timers - 1
  /\ synthQueue' = speak(synthQueue, THANKS_CAPTURE, "captureDone")
  /\ event' = Ev("captureTimeout", speakCalls(synthQueue))
  /\ UNCHANGED <<mode, loops, showButton, hasSpeechRecognition,
                 recognitionRef, activeSessions, alerts, inFlight,
                 Mode_Others>>

Mode_Next ==
  \/ \E i \in DOMAIN loops : Mode_setupCameraReady(i)
  \/ \E i \in DOMAIN loops : Mode_setupCameraFails(i)
  \/ Mode_advanceClock
  \/ \E i \in DOMAIN loops : Mode_detectPerson(i)
  \/ \E i \in DOMAIN loops, n \in 0..MaxFaces : Mode_estimateFacesResolves(i, n)
  \/ Mode_utteranceEnds
  \/ \E t \in Transcripts : Mode_recognitionResult(t)
  \/ Mode_recognitionError
  \/ Mode_handleCapture
  \/ Mode_captureTimeout

Mode_Spec == Mode_Init /\ [][Mode_Next]_vars

\* C25: a detection loop starts a model.estimateFaces call only while mode
\* is 'idle'.
C25_DetectionOnlyInIdle ==
  [][(inFlight' > inFlight) => mode = "idle"]_vars

\* C26: at most one detectPerson loop is scheduled at any time.
C26_OneLoopAlive == Cardinality(Mode_aliveLoops) <= 1

\* --------------------------------------- variant part_001, hasSpoken flag
\* src/unnamed/part_001, lines 452-702: the variant with hasSpoken and
\* isListening, whose step is one of start | greet | end.  speak reads as in
\* src/src/App.jsx.  recognition.start (line 570) is behind the isListening
\* test of line 562; the onresult and onerror handlers (lines 572-589) and,
\* through them, the capture button run only after a session was started.
HS_Others == <<isInteracting, closureIsInteracting, hasGreetingSpoken,
               greetings, mode, loops, recognitionRef, timers>>

\* The bindings detectPerson closes over: detectPerson is made by the effect
\* of lines 490-558 (deps []), so they are the first render's.
HS_closurePersonDetected == FALSE

HS_closureHasSpoken == FALSE

\* The isListening binding of the startSpeechRecognition that the welcome
\* continuation calls: the continuation is made inside detectPerson, so it
\* is the first render's too (and setIsListening(true) at line 528 takes
\* effect only in a later render).
HS_closureIsListening == FALSE

HS_Init ==
  /\ personDetected = FALSE
  /\ step = "start"
  /\ showButton = FALSE
  /\ hasSpoken = FALSE
  /\ isListening = FALSE
  /\ hasSpeechRecognition \in BOOLEAN
  /\ loopPc = "setup"
  /\ elapsed = ElapsedCap
  /\ synthQueue = <<>>
  /\ activeSessions = 0
  /\ alerts = 0
  /\ inFlight = 0
  /\ event = Ev("mount", {})
  /\ isInteracting = FALSE
  /\ closureIsInteracting = FALSE
  /\ hasGreetingSpoken = FALSE
  /\ greetings = 0
  /\ mode = "idle"
  /\ loops = <<>>
  /\ recognitionRef = "null"
  /\ timers = 0

HS_setupCameraReady ==
  /\ loopPc = "setup"
  /\ loopPc' = "raf"
  /\ event' = Ev("cameraReady", {})
  /\ UNCHANGED <<personDetected, step, showButton, hasSpoken, isListening,
                 hasSpeechRecognition, elapsed, synthQueue, activeSessions,
                 alerts, inFlight, HS_Others>>

HS_setupCameraFails ==
  /\ loopPc = "setup"
  /\ loopPc' = "dead"
  /\ alerts' = alerts + 1
  /\ event' = Ev("cameraError", {"alert"})
  /\ UNCHANGED <<personDetected, step, showButton, hasSpoken, isListening,
                 hasSpeechRecognition, elapsed, synthQueue, activeSessions,
                 inFlight, HS_Others>>

\* An animation frame runs detectPerson up to the await of line 513.
HS_detectPerson ==
  /\ loopPc = "raf"
  /\ IF elapsed > DETECTION_INTERVAL
       THEN /\ elapsed' = 0
            /\ inFlight' = inFlight + 1
            /\ loopPc' = "estimating"
            /\ event' = Ev("detectPerson", {"estimateFaces"})
       ELSE UNCHANGED <<loopPc, elapsed, inFlight, event>>
  /\ UNCHANGED <<personDetected, step, showButton, hasSpoken, isListening,
                 hasSpeechRecognition, synthQueue, activeSessions, alerts,
                 HS_Others>>

\* model.estimateFaces resolves with n predictions (lines 517-544).  In the
\* faces branch setHasSpoken(false) of line 521 is followed by
\* setHasSpoken(true) of line 526 whenever both tests pass.
HS_estimateFacesResolves(n) ==
  /\ loopPc = "estimating"
  /\ IF n > 0
       THEN /\ IF ~HS_closurePersonDetected
                 THEN /\ personDetected' = TRUE
                      /\ step' = "greet"
                 ELSE UNCHANGED <<personDetected, step>>
            /\ IF ~HS_closureHasSpoken
                 THEN /\ hasSpoken' = TRUE
                      /\ synthQueue' = speak(synthQueue, GREETING, "listen")
                      /\ event' = Ev("faces", speakCalls(synthQueue))
                 ELSE /\ hasSpoken' = IF ~HS_closurePersonDetected
                                        THEN FALSE ELSE hasSpoken
                      /\ event' = Ev("faces", {})
                      /\ UNCHANGED synthQueue
            /\ UNCHANGED <<showButton, isListening>>
       ELSE /\ personDetected' = FALSE
            /\ showButton' = FALSE
            /\ hasSpoken' = FALSE
            /\ isListening' = FALSE
            /\ event' = Ev("noFaces", {})
            /\ UNCHANGED <<step, synthQueue>>
  /\ loopPc' = "raf"
  /\ inFlight' = inFlight - 1
  /\ UNCHANGED <<hasSpeechRecognition, elapsed, activeSessions, alerts,
                 HS_Others>>

\* startSpeechRecognition (lines 561-570): whether recognition.start is
\* reached.
HS_startsRecognition == HS_closureIsListening /\ hasSpeechRecognition

\* The speech service signals the end of the welcome utterance, the only
\* utterance issued before a session exists: setIsListening(true), then
\* startSpeechRecognition (lines 527-530).
HS_utteranceEnds ==
  /\ synthQueue # <<>>
  /\ synthQueue' = Tail(synthQueue)
  /\ LET u == Head(synthQueue)
     IN  /\ event' = [Ev("onend", IF u.onend = "listen" /\ HS_startsRecognition
                                     THEN {"start"} ELSE {})
                         EXCEPT !.text = u.text]
         /\ IF u.onend = "listen"
              THEN /\ isListening' = TRUE
                   /\ activeSessions' = IF HS_startsRecognition
                                          THEN activeSessions + 1
                                          ELSE activeSessions
              ELSE UNCHANGED <<isListening, activeSessions>>
  /\ UNCHANGED <<personDetected, step, showButton, hasSpoken,
                 hasSpeechRecognition, loopPc, elapsed, alerts, inFlight,
                 HS_Others>>

HS_Next ==
  \/ HS_setupCameraReady
  \/ HS_setupCameraFails
  \/ advanceClock
  \/ HS_detectPerson
  \/ \E n \in 0..MaxFaces : HS_estimateFacesResolves(n)
  \/ HS_utteranceEnds

HS_Spec == HS_Init /\ [][HS_Next]_vars

\* C28: while faces keep being detected the welcome is issued at most once:
\* a tick with faces calls speak only when hasSpoken is not yet set, and
\* hasSpoken stays set until a tick without a face.
C28_WelcomeOncePerDetection ==
  [][(loopPc = "estimating" /\ event'.name = "faces"
        /\ "speak" \in event'.calls) => ~hasSpoken]_vars

\* C29: when the welcome utterance ends in a browser that has
\* SpeechRecognition, one recognition session is started.
C29_SessionStartedAfterWelcome ==
  [][(synthQueue # <<>> /\ Head(synthQueue).text = GREETING
        /\ event'.name = "onend" /\ synthQueue' = <<>>
        /\ hasSpeechRecognition)
       => /\ "start" \in event'.calls
          /\ activeSessions' = activeSessions + 1]_vars

====
